---------------------------- MODULE Spec2Model ----------------------------
(***************************************************************************)
(* Model of main.py: the key resolver, the client initialiser, the         *)
(* response parser, the retry-wrapped caller call_openai and the batch     *)
(* orchestrator generate_emails.                                           *)
(*                                                                         *)
(* A Python str is a sequence of atoms.  An atom is a one-character string *)
(* for every character some code inspects (whitespace, braces, quotes,     *)
(* colon, comma, and every character of an error message) and otherwise a  *)
(* run of ordinary characters that no code looks into (a word, a template  *)
(* literal of an f-string).                                                *)
(***************************************************************************)
EXTENDS Integers, Sequences, FiniteSets, TLC

VARIABLES
    pc,              \* position of the program (startup, batch loop, parser run)
    HAS_STREAMLIT,   \* main.py:17/20
    HAS_OPENAI,      \* main.py:28/32
    secrets,         \* st.secrets["OPENAI_API_KEY"], or Absent
    local_key,       \* secret_key.openai_key, or Absent (import fails)
    env_key,         \* os.environ["OPENAI_API_KEY"], or Absent
    openai_key,      \* main.py:63
    client,          \* main.py:69
    USE_API,         \* main.py:70
    df,              \* the input table of generate_emails
    i,               \* index of the row the loop of generate_emails is at
    results,         \* main.py:228
    raw,             \* main.py:233
    email_raised,    \* whether the except branch of main.py:236 was taken
    subject,         \* main.py:240
    body,            \* main.py:241
    used_fallback,   \* main.py:235/238
    cpc,             \* position inside call_openai
    prompt,          \* argument of the running call_openai
    attempt,         \* loop variable of main.py:201
    backoff,         \* main.py:200
    ret,             \* value returned by call_openai
    err,             \* exception that left call_openai
    n_attempts,      \* API requests issued by the running call_openai
    sleeps,          \* durations passed to time.sleep by the running call_openai
    api_log,         \* what each API request of the running call_openai gave
    text,            \* argument of a direct parse_json_from_text run
    parsed           \* its result

vars == <<pc, HAS_STREAMLIT, HAS_OPENAI, secrets, local_key, env_key,
          openai_key, client, USE_API, df, i, results, raw, email_raised,
          subject, body, used_fallback, cpc, prompt, attempt, backoff, ret,
          err, n_attempts, sleeps, api_log, text, parsed>>

---------------------------------------------------------------------------
(* Python values and str methods                                           *)

\* None, and a missing key, attribute or column: atoms no str of the model holds.
None == <<"#None">>
Absent == <<"#Absent">>
NL == "\n"
QUOTE == "\""

\* Truthiness of a str-or-None value (`if raw`, `if key`, `if not text`).
Truthy(v) == v # None /\ v # <<>>

\* str.isspace for one character.
IsSpace(c) == c \in {" ", NL, "\t", "\r"}

RECURSIVE lstrip(_)
lstrip(s) ==
    IF s # <<>> /\ IsSpace(Head(s)) THEN lstrip(Tail(s)) ELSE s

RECURSIVE rstrip(_)
rstrip(s) ==
    IF s # <<>> /\ IsSpace(s[Len(s)]) THEN rstrip(SubSeq(s, 1, Len(s) - 1)) ELSE s

\* str.strip()
strip(s) == rstrip(lstrip(s))

\* str.find(c): 0-based index of the first occurrence, -1 when there is none.
find(s, c) ==
    IF \E k \in 1..Len(s) : s[k] = c
    THEN (CHOOSE k \in 1..Len(s) : s[k] = c /\ \A j \in 1..(k - 1) : s[j] # c) - 1
    ELSE -1

\* str.rfind(c): 0-based index of the last occurrence, -1 when there is none.
rfind(s, c) ==
    IF \E k \in 1..Len(s) : s[k] = c
    THEN (CHOOSE k \in 1..Len(s) : s[k] = c /\ \A j \in (k + 1)..Len(s) : s[j] # c) - 1
    ELSE -1

\* s[start:end] for start >= 0 and end >= 0.
Slice(s, start, end) ==
    LET e == IF end > Len(s) THEN Len(s) ELSE end
    IN  IF start >= e THEN <<>> ELSE SubSeq(s, start + 1, e)

\* str.splitlines() for the line boundary "\n".
RECURSIVE splitlines(_)
splitlines(s) ==
    IF s = <<>> THEN <<>>
    ELSE LET k == find(s, NL)
         IN  IF k = -1 THEN <<s>>
             ELSE <<SubSeq(s, 1, k)>> \o splitlines(SubSeq(s, k + 2, Len(s)))

\* sep.join(parts)
RECURSIVE join(_, _)
join(sep, parts) ==
    IF parts = <<>> THEN <<>>
    ELSE IF Len(parts) = 1 THEN parts[1]
    ELSE parts[1] \o sep \o join(sep, Tail(parts))

\* str.split(",")
RECURSIVE split_comma(_)
split_comma(s) ==
    LET k == find(s, ",")
    IN  IF k = -1 THEN <<s>>
        ELSE <<SubSeq(s, 1, k)>> \o split_comma(SubSeq(s, k + 2, Len(s)))

\* [f(x) for x in xs if x.strip()] with f = strip
RECURSIVE stripped_non_empty(_)
stripped_non_empty(xs) ==
    IF xs = <<>> THEN <<>>
    ELSE (IF strip(Head(xs)) # <<>> THEN <<strip(Head(xs))>> ELSE <<>>)
         \o stripped_non_empty(Tail(xs))

\* str.lower() on the letters the error messages of the model use.
LowerChar(c) ==
    CASE c = "R" -> "r" [] c = "Q" -> "q" [] c = "C" -> "c" [] c = "T" -> "t"
      [] c = "N" -> "n" [] OTHER -> c

lower(s) == [k \in 1..Len(s) |-> LowerChar(s[k])]

\* `sub in s`
contains(s, sub) ==
    \E k \in 0..(Len(s) - Len(sub)) : SubSeq(s, k + 1, k + Len(sub)) = sub

---------------------------------------------------------------------------
(* json.loads on the JSON texts the model draws: an object whose members   *)
(* have string keys and string values, with JSON whitespace between the    *)
(* tokens.  Positions are 1-based.                                         *)

JsonFail == [ok |-> FALSE, data |-> <<>>, next |-> 0]

RECURSIVE json_ws(_, _)
json_ws(s, p) ==
    IF p <= Len(s) /\ s[p] \in {" ", NL, "\t", "\r"} THEN json_ws(s, p + 1) ELSE p

\* A string literal at p: up to the next quote, no control character inside.
json_string(s, p) ==
    IF p <= Len(s) /\ s[p] = QUOTE /\ (\E q \in (p + 1)..Len(s) : s[q] = QUOTE)
    THEN LET q == CHOOSE q \in (p + 1)..Len(s) :
                      s[q] = QUOTE /\ \A k \in (p + 1)..(q - 1) : s[k] # QUOTE
         IN  IF \A k \in (p + 1)..(q - 1) : s[k] \notin {NL, "\t", "\r"}
             THEN [ok |-> TRUE, val |-> SubSeq(s, p + 1, q - 1), next |-> q + 1]
             ELSE [ok |-> FALSE, val |-> <<>>, next |-> 0]
    ELSE [ok |-> FALSE, val |-> <<>>, next |-> 0]

\* The members of an object from p on, up to and including the closing brace.
RECURSIVE json_members(_, _, _)
json_members(s, p, acc) ==
    LET k == json_string(s, p)
    IN  IF ~k.ok THEN JsonFail
        ELSE LET c == json_ws(s, k.next)
             IN  IF c > Len(s) \/ s[c] # ":" THEN JsonFail
                 ELSE LET v == json_string(s, json_ws(s, c + 1))
                      IN  IF ~v.ok THEN JsonFail
                          ELSE LET e == json_ws(s, v.next)
                                   acc2 == Append(acc, <<k.val, v.val>>)
                               IN  IF e > Len(s) THEN JsonFail
                                   ELSE IF s[e] = "}"
                                        THEN [ok |-> TRUE, data |-> acc2, next |-> e + 1]
                                   ELSE IF s[e] = ","
                                        THEN json_members(s, json_ws(s, e + 1), acc2)
                                   ELSE JsonFail

\* json.loads(s): ok = FALSE stands for the JSONDecodeError it raises.
json_loads(s) ==
    LET p == json_ws(s, 1)
    IN  IF p > Len(s) \/ s[p] # "{" THEN JsonFail
        ELSE LET m == json_ws(s, p + 1)
                 obj == IF m <= Len(s) /\ s[m] = "}"
                        THEN [ok |-> TRUE, data |-> <<>>, next |-> m + 1]
                        ELSE json_members(s, m, <<>>)
             IN  IF obj.ok /\ json_ws(s, obj.next) > Len(s) THEN obj ELSE JsonFail

\* dict.get(key, default) on the members in source order: the last one wins.
dict_get(data, key, default) ==
    IF \E k \in 1..Len(data) : data[k][1] = key
    THEN data[CHOOSE k \in 1..Len(data) :
                  data[k][1] = key /\ \A j \in (k + 1)..Len(data) : data[j][1] # key][2]
    ELSE default

---------------------------------------------------------------------------
(* Helper functions of main.py                                             *)

\* parse_fallback with the filter `if ln.strip()` left out.
parse_fallback_KeepBlank(t) ==
    LET lines == [k \in 1..Len(splitlines(t)) |-> strip(splitlines(t)[k])]
    IN  [subject |-> IF lines # <<>> THEN lines[1] ELSE <<>>,
         body    |-> IF Len(lines) > 1 THEN join(<<" ">>, Tail(lines)) ELSE <<>>]

\* The line-based fallback of parse_json_from_text on the stripped text.
parse_fallback(t) ==
    LET lines == stripped_non_empty(splitlines(t))
    IN  [subject |-> IF lines # <<>> THEN lines[1] ELSE <<>>,
         body    |-> IF Len(lines) > 1 THEN join(<<" ">>, Tail(lines)) ELSE <<>>]

parse_json_from_text(txt) ==
    IF ~Truthy(txt) THEN [subject |-> <<>>, body |-> <<>>]
    ELSE LET t == strip(txt)
             start == find(t, "{")
             end == rfind(t, "}") + 1
             loaded == json_loads(Slice(t, start, end))
         IN  IF start # -1 /\ end # -1 /\ loaded.ok
             THEN [subject |-> strip(dict_get(loaded.data, <<"subject">>, <<>>)),
                   body    |-> strip(dict_get(loaded.data, <<"body">>, <<>>))]
             ELSE parse_fallback(t)

\* row.get(col, "")
row_get(row, col) == IF col \in DOMAIN row THEN row[col] ELSE <<>>

\* The f-string of make_prompt after .strip(); the dash and the quotation
\* marks of the template are written in ASCII.
make_prompt(row) ==
    <<"Create a short personalized email (JSON only) for the customer.\n\nCustomer name: ">>
    \o row["Customer name"] \o <<"\nCity: ">> \o row["City"]
    \o <<"\nGender: ">> \o row_get(row, "Gender")
    \o <<"\nLast month purchase amount: ">> \o row_get(row, "Last month purchase amount")
    \o <<"\nLast quarter purchase amount: ">> \o row_get(row, "Last quarter")
    \o <<"\nLast year purchase amount: ">> \o row_get(row, "Last year")
    \o <<"\nProducts previously bought: ">> \o row_get(row, "products bought list of items")
    \o <<"\n\nRequirements:\n- Output JSON only: { \"subject\": \"...\", \"body\": \"...\" }\n- Subject: 6-8 words max\n- Body: max 40 words; mention one product; end with 'Explore more' or 'Check it out'.">>

mock_generate(row) ==
    LET products == stripped_non_empty(split_comma(row_get(row, "products bought list of items")))
        product == IF products # <<>> THEN products[1] ELSE <<"our selection">>
    IN  [subject |-> row["Customer name"] \o <<", a pick you'll love -- ">> \o product,
         body    |-> <<"Hi ">> \o row["Customer name"]
                     \o <<", based on your recent purchases in ">> \o row["City"]
                     \o <<", you may love our ">> \o product \o <<". Check it out.">>]

make_notification_prompt(row, subj, bod) ==
    <<"Write ONE short customer notification (18-22 words).\n\nCustomer: ">>
    \o row["Customer name"]
    \o <<"\nProduct context: ">> \o row_get(row, "products bought list of items")
    \o <<"\nEmail subject: ">> \o subj
    \o <<"\nEmail body: ">> \o bod
    \o <<"\n\nNo JSON, only plain text.">>

mock_notification(row) ==
    row["Customer name"] \o <<", check out your personalized offers today!">>

\* A raised exception; str(e) is msg.
Exc(type, msg) == [type |-> type, msg |-> msg]

Returned(v) == [ok |-> TRUE, val |-> v]
Raised(e) == [ok |-> FALSE, exc |-> e]

AttributeErrorStrip ==
    Exc("AttributeError",
        <<"'", "N", "o", "n", "e", "T", "y", "p", "e", "'", " ", "o", "b", "j", "e", "c",
          "t", " ", "h", "a", "s", " ", "n", "o", " ", "a", "t", "t", "r", "i", "b", "u",
          "t", "e", " ", "'", "s", "t", "r", "i", "p", "'">>)

IndexErrorChoices ==
    Exc("IndexError",
        <<"l", "i", "s", "t", " ", "i", "n", "d", "e", "x", " ", "o", "u", "t", " ", "o",
          "f", " ", "r", "a", "n", "g", "e">>)

\* A str attribute that is non-blank: isinstance(val, str) and val.strip().
NonBlankStr(v) == v # None /\ v # Absent /\ strip(v) # <<>>

\* extract_message_content(choice).  A choice is [kind, message, text], a
\* message [kind, content, text, repr]; kind is "dict" or "obj", and "none" for
\* a message that is None or missing; a missing key or attribute is Absent;
\* repr is str(msg).
extract_message_content(choice) ==
    LET msg == choice.message
    IN  IF msg.kind = "dict"
        THEN IF msg.content = Absent THEN Returned(<<>>)
             ELSE IF msg.content = None THEN Raised(AttributeErrorStrip)
             ELSE Returned(strip(msg.content))
        ELSE IF msg.kind = "obj"
        THEN IF NonBlankStr(msg.content) THEN Returned(strip(msg.content))
             ELSE IF NonBlankStr(msg.text) THEN Returned(strip(msg.text))
             ELSE Returned(msg.repr)
        ELSE IF choice.kind = "dict"
        THEN IF choice.text = Absent THEN Returned(<<>>)
             ELSE IF choice.text = None THEN Raised(AttributeErrorStrip)
             ELSE Returned(strip(choice.text))
        ELSE Returned(<<>>)

\* extract_message_content(resp.choices[0]) for a response [choices |-> <<...>>].
first_choice_content(resp) ==
    IF resp.choices = <<>> THEN Raised(IndexErrorChoices)
    ELSE extract_message_content(resp.choices[1])

\* The test of main.py:212 on a caught exception.
RateIndicator == <<"r", "a", "t", "e">>
QuotaIndicator == <<"q", "u", "o", "t", "a">>

\* is_rate_or_quota retrying on every exception.
is_rate_or_quota_Any(e) == TRUE

is_rate_or_quota(e) ==
    contains(lower(e.msg), RateIndicator) \/ contains(lower(e.msg), QuotaIndicator)

\* get_openai_key(): the first source that is present is returned, stripped.
get_openai_key(has_streamlit, sec, loc, env) ==
    IF has_streamlit /\ sec # Absent THEN strip(sec)
    ELSE IF loc # Absent THEN strip(loc)
    ELSE strip(IF env = Absent THEN <<>> ELSE env)

---------------------------------------------------------------------------
(* Inputs                                                                  *)

MaxKeyLen == 2
MaxRows == 2
MaxPieces == 4

RECURSIVE SeqsUpTo(_, _)
SeqsUpTo(S, n) ==
    IF n = 0 THEN {<<>>}
    ELSE LET shorter == SeqsUpTo(S, n - 1)
         IN  shorter \cup {Append(q, x) : q \in {t \in shorter : Len(t) = n - 1}, x \in S}

\* A credential source: missing, or a str of blanks and of the letter of the source.
KeyValues(letter) == {Absent} \cup SeqsUpTo({" ", letter}, MaxKeyLen)

RowAna ==
    ("Customer name" :> <<"Ana">>) @@ ("City" :> <<"Rome">>)
    @@ ("products bought list of items" :> <<"Shoes", ",", " ", "Hat">>)
RowBo == ("Customer name" :> <<"Bo">>) @@ ("City" :> <<"Oslo">>)
Rows == <<RowAna, RowBo>>
\* The tables of up to MaxRows rows in which the two rows alternate.
Table(first, n) == [k \in 1..n |-> Rows[((first + k) % 2) + 1]]
Tables == {Table(first, n) : first \in {0, 1}, n \in 0..MaxRows}

JsonMemberSubject == <<QUOTE, "subject", QUOTE, ":", QUOTE, "Hi", QUOTE>>
JsonMemberBody == <<QUOTE, "body", QUOTE, ":", " ", QUOTE, "Bye", QUOTE>>
JsonEmail == <<" ", "{">> \o JsonMemberSubject \o <<",">> \o JsonMemberBody \o <<"}", NL>>

\* The pieces the texts of a direct parser run are put together from.
Pieces == {<<"{">>, <<"}">>, <<",">>, <<" ">>, <<NL>>, <<"Line">>,
           JsonMemberSubject, JsonMemberBody}

RECURSIVE Flatten(_)
Flatten(ps) == IF ps = <<>> THEN <<>> ELSE Head(ps) \o Flatten(Tail(ps))

Texts == {Flatten(ps) : ps \in SeqsUpTo(Pieces, MaxPieces)}

NoMessage == [kind |-> "none", content |-> Absent, text |-> Absent, repr |-> <<>>]
ObjMessage(content) ==
    [kind |-> "obj", content |-> content, text |-> Absent,
     repr |-> <<"ChatCompletionMessage(content=None)">>]
DictMessage(content) ==
    [kind |-> "dict", content |-> content, text |-> Absent, repr |-> <<>>]
Response(kind, message, txt) ==
    [choices |-> <<[kind |-> kind, message |-> message, text |-> txt]>>]

\* What one client.chat.completions.create call can give back.
ApiResponses ==
    { Response("obj", ObjMessage(JsonEmail), Absent),
      Response("obj", ObjMessage(None), Absent),
      Response("dict", DictMessage(<<" ">>), Absent),
      Response("dict", DictMessage(None), Absent),
      Response("obj", NoMessage, Absent),
      Response("dict", NoMessage, <<NL>>),
      [choices |-> <<>>] }

RateLimitError == Exc("RateLimitError", <<"R", "a", "t", "e", " ", "l", "i", "m", "i", "t">>)
QuotaError ==
    Exc("APIStatusError",
        <<"Q", "u", "o", "t", "a", " ", "e", "x", "c", "e", "e", "d", "e", "d">>)
ConnectionError ==
    Exc("APIConnectionError",
        <<"C", "o", "n", "n", "e", "c", "t", "i", "o", "n", " ", "e", "r", "r", "o", "r", ".">>)
\* What it can raise.
ApiErrors == {RateLimitError, QuotaError, ConnectionError}

NoExc == Exc("none", <<>>)
ClientUnavailable == Exc("RuntimeError", <<"OpenAI client not available.">>)
RetriesFailed == Exc("RuntimeError", <<"OpenAI API failed after retries.">>)

\* range(4) of main.py:201
MaxAttempts == 4

---------------------------------------------------------------------------
(* Startup: main.py:63-85                                                  *)

keyVars == <<HAS_STREAMLIT, HAS_OPENAI, secrets, local_key, env_key>>
startVars == <<openai_key, client, USE_API>>
rowVars == <<raw, email_raised, subject, body, used_fallback>>
callVars == <<cpc, prompt, attempt, backoff, ret, err, n_attempts, sleeps,
              api_log>>
batchVars == <<df, i, results>>
parseVars == <<text, parsed>>

\* openai_key = get_openai_key()
GetOpenAIKey ==
    /\ pc = "get_key"
    /\ openai_key' = get_openai_key(HAS_STREAMLIT, secrets, local_key, env_key)
    /\ pc' = "init_client"
    /\ UNCHANGED <<keyVars, client, USE_API, rowVars, callVars,
                   batchVars, parseVars>>

\* init_client with USE_API set before the constructor ran and not reset.
init_client_KeepFlag(has_openai, key, ctor_raises) ==
    IF ~has_openai THEN [client |-> "None", USE_API |-> FALSE]
    ELSE IF ~Truthy(key) THEN [client |-> "None", USE_API |-> FALSE]
    ELSE IF ctor_raises THEN [client |-> "None", USE_API |-> TRUE]
    ELSE [client |-> "client", USE_API |-> TRUE]

\* main.py:69-85 for a constructor OpenAI(api_key=...) that raises or not.
init_client(has_openai, key, ctor_raises) ==
    IF ~has_openai THEN [client |-> "None", USE_API |-> FALSE]
    ELSE IF ~Truthy(key) THEN [client |-> "None", USE_API |-> FALSE]
    ELSE IF ctor_raises THEN [client |-> "None", USE_API |-> FALSE]
    ELSE [client |-> "client", USE_API |-> TRUE]

InitClient ==
    /\ pc = "init_client"
    /\ \E ctor_raises \in BOOLEAN :
          LET c == init_client(HAS_OPENAI, openai_key, ctor_raises)
          IN  client' = c.client /\ USE_API' = c.USE_API
    /\ pc' = "ready"
    /\ UNCHANGED <<keyVars, openai_key, rowVars, callVars, batchVars,
                   parseVars>>

---------------------------------------------------------------------------
(* call_openai: main.py:195-218                                            *)

\* main.py:197-200: the guard, then backoff = 1 and the first iteration.
call_openai_enter(p) ==
    /\ prompt' = p
    /\ n_attempts' = 0
    /\ sleeps' = <<>>
    /\ api_log' = <<>>
    /\ ret' = None
    /\ IF ~USE_API \/ client = "None"
       THEN cpc' = "raised" /\ err' = ClientUnavailable /\ UNCHANGED <<attempt, backoff>>
       ELSE cpc' = "try" /\ err' = NoExc /\ attempt' = 0 /\ backoff' = 1

\* What an attempt gives: the content of the response or the exception caught.
attempt_result(outcome) ==
    IF outcome.kind = "error" THEN Raised(outcome.exc)
    ELSE first_choice_content(outcome.resp)

ApiOutcomes ==
    {[kind |-> "error", exc |-> e, resp |-> [choices |-> <<>>]] : e \in ApiErrors}
    \cup {[kind |-> "resp", exc |-> NoExc, resp |-> r] : r \in ApiResponses}

\* main.py:202-216, one iteration up to the return, the sleep or the raise.
ApiAttempt ==
    /\ cpc = "try"
    /\ attempt < MaxAttempts
    /\ \E outcome \in ApiOutcomes :
          LET r == attempt_result(outcome)
          IN  /\ api_log' = Append(api_log, r)
              /\ IF r.ok
                 THEN cpc' = "returned" /\ ret' = r.val /\ err' = NoExc
                 ELSE IF is_rate_or_quota(r.exc)
                 THEN cpc' = "sleep" /\ UNCHANGED <<ret, err>>
                 ELSE cpc' = "raised" /\ err' = r.exc /\ UNCHANGED ret
    /\ n_attempts' = n_attempts + 1
    /\ UNCHANGED <<pc, keyVars, startVars, rowVars, prompt, attempt, backoff,
                   sleeps, batchVars, parseVars>>

\* next_backoff growing by one.
next_backoff_Linear(b) == b + 1

\* backoff *= 2
next_backoff(b) == b * 2

\* main.py:213-215: time.sleep(backoff) returns, backoff doubles, next iteration.
Sleep ==
    /\ cpc = "sleep"
    /\ sleeps' = Append(sleeps, backoff)
    /\ backoff' = next_backoff(backoff)
    /\ attempt' = attempt + 1
    /\ cpc' = "try"
    /\ UNCHANGED <<pc, keyVars, startVars, rowVars, prompt, ret, err, n_attempts,
                   api_log, batchVars, parseVars>>

\* main.py:218: the loop is exhausted.
RetriesExhausted ==
    /\ cpc = "try"
    /\ attempt >= MaxAttempts
    /\ cpc' = "raised"
    /\ err' = RetriesFailed
    /\ UNCHANGED <<pc, keyVars, startVars, rowVars, prompt, attempt, backoff, ret,
                   n_attempts, sleeps, api_log, batchVars, parseVars>>

\* The local state of call_openai once its caller has taken the outcome.
call_openai_leave ==
    /\ cpc' = "idle"
    /\ prompt' = <<>>
    /\ attempt' = 0
    /\ backoff' = 1
    /\ ret' = None
    /\ err' = NoExc
    /\ n_attempts' = 0
    /\ sleeps' = <<>>
    /\ api_log' = <<>>

---------------------------------------------------------------------------
(* generate_emails: main.py:226-265                                        *)

GenerateEmails ==
    /\ pc = "ready"
    /\ \E table \in Tables : df' = table
    /\ results' = <<>>
    /\ i' = 1
    /\ pc' = "loop"
    /\ UNCHANGED <<keyVars, startVars, rowVars, callVars, parseVars>>

\* main.py:233: call_openai(make_prompt(row)) if USE_API else None
EmailStart ==
    /\ pc = "loop"
    /\ i <= Len(df)
    /\ IF USE_API
       THEN call_openai_enter(make_prompt(df[i]))
       ELSE cpc' = "skipped" /\ UNCHANGED <<prompt, attempt, backoff, ret, err,
                                            n_attempts, sleeps, api_log>>
    /\ pc' = "email_call"
    /\ UNCHANGED <<keyVars, startVars, rowVars, batchVars, parseVars>>

\* main.py:233-238 from the outcome of the call on: [raw, parsed, used_fallback, raised].
email_step(row, call_pc, returned) ==
    IF call_pc = "raised"
    THEN [raw |-> None, parsed |-> mock_generate(row), used_fallback |-> TRUE,
          raised |-> TRUE]
    ELSE LET r == IF call_pc = "returned" THEN returned ELSE None
         IN  [raw |-> r,
              parsed |-> IF Truthy(r) THEN parse_json_from_text(r) ELSE mock_generate(row),
              used_fallback |-> (r = None),
              raised |-> FALSE]

\* EmailFinish without the except branch: the exception leaves generate_emails.
EmailFinish_NoCatch ==
    /\ pc = "email_call"
    /\ cpc \in {"returned", "raised", "skipped"}
    /\ IF cpc = "raised"
       THEN pc' = "done" /\ UNCHANGED rowVars
       ELSE /\ LET e == email_step(df[i], cpc, ret)
               IN  /\ raw' = e.raw
                   /\ email_raised' = e.raised
                   /\ used_fallback' = e.used_fallback
                   /\ subject' = e.parsed.subject
                   /\ body' = e.parsed.body
            /\ pc' = "notif_start"
    /\ call_openai_leave
    /\ UNCHANGED <<keyVars, startVars, batchVars, parseVars>>

\* main.py:234-241
EmailFinish ==
    /\ pc = "email_call"
    /\ cpc \in {"returned", "raised", "skipped"}
    /\ LET e == email_step(df[i], cpc, ret)
       IN  /\ raw' = e.raw
           /\ email_raised' = e.raised
           /\ used_fallback' = e.used_fallback
           /\ subject' = e.parsed.subject
           /\ body' = e.parsed.body
    /\ call_openai_leave
    /\ pc' = "notif_start"
    /\ UNCHANGED <<keyVars, startVars, batchVars, parseVars>>

\* NotifStart that skips the live call once the email step fell back.
NotifStart_SkipOnFallback ==
    /\ pc = "notif_start"
    /\ IF USE_API /\ ~used_fallback
       THEN call_openai_enter(make_notification_prompt(df[i], subject, body))
       ELSE cpc' = "skipped" /\ UNCHANGED <<prompt, attempt, backoff, ret, err,
                                            n_attempts, sleeps, api_log>>
    /\ pc' = "notif_call"
    /\ UNCHANGED <<keyVars, startVars, rowVars, batchVars, parseVars>>

\* main.py:245-249
NotifStart ==
    /\ pc = "notif_start"
    /\ IF USE_API
       THEN call_openai_enter(make_notification_prompt(df[i], subject, body))
       ELSE cpc' = "skipped" /\ UNCHANGED <<prompt, attempt, backoff, ret, err,
                                            n_attempts, sleeps, api_log>>
    /\ pc' = "notif_call"
    /\ UNCHANGED <<keyVars, startVars, rowVars, batchVars, parseVars>>

\* main.py:245-252 from the outcome of the call on.
notification_step(row, call_pc, returned) ==
    IF call_pc = "raised" THEN mock_notification(row)
    ELSE LET notif_raw == IF call_pc = "returned" THEN returned ELSE None
         IN  IF Truthy(notif_raw) THEN strip(notif_raw) ELSE mock_notification(row)

\* make_record with "City" read from the name column.
make_record_CityFromName(row, subj, bod, notification, fallback) ==
    ("Customer name" :> row["Customer name"]) @@ ("City" :> row["Customer name"])
    @@ ("subject" :> subj) @@ ("body" :> bod)
    @@ ("notification" :> notification) @@ ("used_fallback" :> fallback)

\* The record of main.py:255-262.
make_record(row, subj, bod, notification, fallback) ==
    ("Customer name" :> row["Customer name"]) @@ ("City" :> row["City"])
    @@ ("subject" :> subj) @@ ("body" :> bod)
    @@ ("notification" :> notification) @@ ("used_fallback" :> fallback)

\* main.py:250-263, and the next iteration of the loop.
NotifFinish ==
    /\ pc = "notif_call"
    /\ cpc \in {"returned", "raised", "skipped"}
    /\ results' = Append(results,
                         make_record(df[i], subject, body,
                                     notification_step(df[i], cpc, ret), used_fallback))
    /\ i' = i + 1
    /\ call_openai_leave
    /\ pc' = "loop"
    /\ UNCHANGED <<keyVars, startVars, rowVars, df, parseVars>>

\* main.py:265
Return ==
    /\ pc = "loop"
    /\ i > Len(df)
    /\ pc' = "done"
    /\ UNCHANGED <<keyVars, startVars, rowVars, callVars, batchVars,
                   parseVars>>

\* A direct run of parse_json_from_text(text).
ParseText ==
    /\ pc = "parse"
    /\ parsed' = parse_json_from_text(text)
    /\ pc' = "parsed"
    /\ UNCHANGED <<keyVars, startVars, rowVars, callVars, batchVars, text>>

---------------------------------------------------------------------------
(* Specifications                                                          *)

InitRest ==
    /\ openai_key = <<>>
    /\ client = "None"
    /\ USE_API = FALSE
    /\ df = <<>>
    /\ i = 1
    /\ results = <<>>
    /\ raw = None
    /\ email_raised = FALSE
    /\ subject = <<>>
    /\ body = <<>>
    /\ used_fallback = FALSE
    /\ cpc = "idle"
    /\ prompt = <<>>
    /\ attempt = 0
    /\ backoff = 1
    /\ ret = None
    /\ err = NoExc
    /\ n_attempts = 0
    /\ sleeps = <<>>
    /\ api_log = <<>>
    /\ parsed = [subject |-> <<>>, body |-> <<>>]

\* The program from its import on, under the streamlit app, with the
\* credential in the environment or nowhere.
Init ==
    /\ pc = "get_key"
    /\ HAS_STREAMLIT = TRUE
    /\ HAS_OPENAI \in BOOLEAN
    /\ secrets = Absent
    /\ local_key = Absent
    /\ env_key \in {Absent, <<"e", " ">>}
    /\ text = <<>>
    /\ InitRest

Next ==
    \/ GetOpenAIKey
    \/ InitClient
    \/ GenerateEmails
    \/ EmailStart
    \/ ApiAttempt
    \/ Sleep
    \/ RetriesExhausted
    \/ EmailFinish
    \/ NotifStart
    \/ NotifFinish
    \/ Return

Spec == Init /\ [][Next]_vars

\* The startup under every combination of the three credential sources.
InitKey ==
    /\ pc = "get_key"
    /\ HAS_STREAMLIT \in BOOLEAN
    /\ HAS_OPENAI \in BOOLEAN
    /\ secrets \in KeyValues("s")
    /\ local_key \in KeyValues("l")
    /\ env_key \in KeyValues("e")
    /\ text = <<>>
    /\ InitRest

NextKey == GetOpenAIKey \/ InitClient

SpecKey == InitKey /\ [][NextKey]_vars

\* parse_json_from_text on every text of the pieces.
InitParse ==
    /\ pc = "parse"
    /\ HAS_STREAMLIT = TRUE
    /\ HAS_OPENAI = TRUE
    /\ secrets = Absent
    /\ local_key = Absent
    /\ env_key = Absent
    /\ text \in Texts
    /\ InitRest

NextParse == ParseText

SpecParse == InitParse /\ [][NextParse]_vars

---------------------------------------------------------------------------
(* Claims                                                                  *)

\* The failures that carry a rate or quota indicator, by name.
RetryableErrors == {RateLimitError, QuotaError}

RetryableFailure(r) == ~r.ok /\ r.exc \in RetryableErrors

\* The first k API requests of the running call failed with a rate/quota error.
FailedFirst(k) ==
    Len(api_log) >= k /\ \A j \in 1..k : RetryableFailure(api_log[j])

BackoffSchedule == <<1, 2, 4>>

\* C1: in call_openai, k rate/quota failures (k in 0..3) followed by a success
\* return that attempt's result after exactly k+1 requests with the sleeps
\* 1, 2, 4 cut to k terms; 4 rate/quota failures make exactly 4 requests and
\* end in the 'failed after retries' error, never in a 5th request.
C1_RetrySchedule ==
    /\ n_attempts <= 4
    /\ \A k \in 0..3 :
          (FailedFirst(k) /\ Len(api_log) = k + 1 /\ api_log[k + 1].ok)
          => /\ cpc = "returned"
             /\ ret = api_log[k + 1].val
             /\ n_attempts = k + 1
             /\ sleeps = SubSeq(BackoffSchedule, 1, k)
    /\ FailedFirst(4)
       => /\ n_attempts = 4
          /\ Len(api_log) = 4
          /\ cpc \in {"sleep", "try", "raised"}
          /\ ~ENABLED ApiAttempt
          /\ cpc = "raised" => err = RetriesFailed

C1_Witness ==
    cpc = "returned" /\ FailedFirst(3) /\ n_attempts = 4 /\ sleeps = <<1, 2, 4>>

\* C2: generate_emails returns exactly one record per row of the table, the
\* i-th record carrying the Customer name and City of the i-th row, whatever
\* the live calls gave.
C2_OneRecordPerRowInOrder ==
    /\ Len(results) <= Len(df)
    /\ pc \in {"loop", "done"} => Len(results) = i - 1
    /\ pc = "done" => Len(results) = Len(df)
    /\ \A j \in 1..Len(results) :
          /\ results[j]["Customer name"] = df[j]["Customer name"]
          /\ results[j]["City"] = df[j]["City"]

C2_Witness ==
    /\ pc = "done"
    /\ USE_API
    /\ Len(df) >= 2
    /\ \E j, k \in 1..Len(results) :
          results[j]["used_fallback"] /\ ~results[k]["used_fallback"]

\* C3: a row whose live email call raises still gets its record, with
\* used_fallback = TRUE and the mock subject and body; the batch completes
\* with one record per row; and every record is appended from the outcome of
\* its own row only, the records of the other rows staying as they are.
C3_BatchIsolation ==
    /\ [][(pc = "email_call" /\ pc' # "email_call")
          => /\ pc' = "notif_start"
             /\ results' = results /\ df' = df /\ i' = i
             /\ email_raised' = (cpc = "raised")
             /\ raw' = (IF cpc = "returned" THEN ret ELSE None)
             /\ cpc = "raised"
                => /\ used_fallback'
                   /\ subject' = mock_generate(df[i]).subject
                   /\ body' = mock_generate(df[i]).body]_vars
    /\ [][(pc = "notif_call" /\ pc' # "notif_call")
          => /\ pc' = "loop" /\ i' = i + 1 /\ df' = df
             /\ Len(results') = Len(results) + 1
             /\ SubSeq(results', 1, Len(results)) = results
             /\ LET rec == results'[Len(results')]
                    live == ~email_raised /\ Truthy(raw)
                IN  /\ email_raised => rec["used_fallback"]
                    /\ rec["subject"] = IF live THEN parse_json_from_text(raw).subject
                                                ELSE mock_generate(df[i]).subject
                    /\ rec["body"] = IF live THEN parse_json_from_text(raw).body
                                             ELSE mock_generate(df[i]).body
                    /\ live => ~rec["used_fallback"]]_vars
    /\ [](pc = "done" => Len(results) = Len(df))

C3_Witness ==
    /\ pc = "done"
    /\ USE_API
    /\ Len(results) >= 2
    /\ results[1]["used_fallback"]
    /\ results[1]["subject"] = mock_generate(df[1]).subject
    /\ ~results[2]["used_fallback"]
    /\ results[2]["subject"] = <<"Hi">>

\* C4: in every record, used_fallback is TRUE exactly when the subject and
\* body are the mock ones of mock_generate.
C4_FallbackFlagExact ==
    \A j \in 1..Len(results) :
       results[j]["used_fallback"]
       <=> /\ results[j]["subject"] = mock_generate(df[j]).subject
           /\ results[j]["body"] = mock_generate(df[j]).body

\* The credential of a source after trimming, empty for a missing source.
Trimmed(v) == IF v = Absent THEN <<>> ELSE strip(v)

FirstNonEmpty(values) ==
    IF \E k \in 1..Len(values) : values[k] # <<>>
    THEN values[CHOOSE k \in 1..Len(values) :
                    values[k] # <<>> /\ \A j \in 1..(k - 1) : values[j] = <<>>]
    ELSE <<>>

\* C5: get_openai_key returns the trimmed value of the first of the secret
\* store, the secret_key file and the environment whose value is non-empty
\* after trimming, and the empty string when none is.
C5_FirstNonEmptySourceWins ==
    pc # "get_key"
    => openai_key = FirstNonEmpty(<<IF HAS_STREAMLIT THEN Trimmed(secrets) ELSE <<>>,
                                    Trimmed(local_key), Trimmed(env_key)>>)

NonBlank(line) == strip(line) # <<>>

\* The non-empty lines of a text, trimmed.
NonEmptyLines(t) ==
    LET ls == SelectSeq(splitlines(t), NonBlank)
    IN  [k \in 1..Len(ls) |-> strip(ls[k])]

\* No "{" is found, or json.loads fails on the slice from the first "{" to the
\* last "}" of the stripped text.
FallbackCase(t) ==
    LET st == strip(t)
    IN  \/ find(st, "{") = -1
        \/ ~json_loads(Slice(st, find(st, "{"), rfind(st, "}") + 1)).ok

\* C6: parse_json_from_text returns a record with exactly the fields subject
\* and body for every text, and when no braces are found or the structured
\* parsing fails, subject is the first non-empty line and body the remaining
\* non-empty lines joined by single spaces.
C6_ParserTotalWithLineFallback ==
    pc = "parsed"
    => /\ DOMAIN parsed = {"subject", "body"}
       /\ FallbackCase(text)
          => LET lines == NonEmptyLines(text)
             IN  /\ parsed.subject = IF lines = <<>> THEN <<>> ELSE lines[1]
                 /\ parsed.body = IF lines = <<>> THEN <<>>
                                  ELSE join(<<" ">>, Tail(lines))

C6_Witness ==
    /\ pc = "parsed"
    /\ find(text, "{") # -1
    /\ find(text, "}") # -1
    /\ FallbackCase(text)
    /\ parsed.body # <<>>

\* C7: a failure without a rate/quota indicator at any attempt 1..4 ends
\* call_openai at once: the error that leaves it is that failure, no request
\* and no sleep follows it.
C7_OtherFailurePropagates ==
    \A n \in 1..4 :
       (Len(api_log) = n /\ ~api_log[n].ok /\ api_log[n].exc \notin RetryableErrors)
       => /\ cpc = "raised"
          /\ err = api_log[n].exc
          /\ err # RetriesFailed
          /\ n_attempts = n
          /\ Len(sleeps) = n - 1

C7_Witness ==
    /\ Len(api_log) = 4
    /\ FailedFirst(3)
    /\ ~api_log[4].ok
    /\ api_log[4].exc = ConnectionError
    /\ cpc = "raised"
    /\ err = ConnectionError

\* C8: every sleep of call_openai lies strictly between two API requests: a
\* call that has ended has slept fewer times than it has requested.
C8_EverySleepBeforeAnAttempt ==
    cpc \in {"returned", "raised"} => (sleeps = <<>> \/ Len(sleeps) < n_attempts)

\* The prompt ends with the subject and the body in the places of the template.
PromptCarries(p, subj, bod) ==
    LET tail == <<"\nEmail subject: ">> \o subj \o <<"\nEmail body: ">> \o bod
                \o <<"\n\nNo JSON, only plain text.">>
    IN  /\ Len(p) >= Len(tail)
        /\ SubSeq(p, Len(p) - Len(tail) + 1, Len(p)) = tail

\* C9: with the live API, the notification call of a row is made whether or
\* not the email step fell back, its prompt carries the subject and body of
\* the row's record, the notification is the mock one exactly when the call
\* raised or returned empty text, and used_fallback is not changed by it.
C9_NotificationIndependent ==
    /\ [][(pc = "notif_start" /\ USE_API /\ pc' # pc)
          => /\ pc' = "notif_call"
             /\ cpc' = "try"
             /\ PromptCarries(prompt', subject, body)]_vars
    /\ [][(pc = "notif_call" /\ USE_API /\ pc' # pc)
          => LET rec == results'[Len(results')]
             IN  /\ Len(results') = Len(results) + 1
                 /\ PromptCarries(prompt, rec["subject"], rec["body"])
                 /\ (rec["notification"] = mock_notification(df[i]))
                    <=> (cpc = "raised" \/ (cpc = "returned" /\ ret = <<>>))
                 /\ rec["used_fallback"] = used_fallback]_vars
    /\ [][(pc \in {"notif_start", "notif_call"}) => (used_fallback' = used_fallback)]_vars

C9_Witness ==
    /\ pc = "notif_call"
    /\ USE_API
    /\ used_fallback
    /\ cpc = "returned"
    /\ Truthy(ret)
    /\ PromptCarries(prompt, mock_generate(df[i]).subject, mock_generate(df[i]).body)

\* C10: without the SDK, without a credential or with a constructor that
\* raises, startup completes with client = None and USE_API = FALSE; USE_API
\* implies a constructed client; and in mock mode generate_emails issues no
\* API request and no sleep and every record is the mock one with
\* used_fallback = TRUE.
C10_MockModeGlobal ==
    /\ USE_API => client = "client"
    /\ pc = "get_key" => ENABLED GetOpenAIKey
    /\ pc = "init_client" => ENABLED InitClient
    /\ (pc \notin {"get_key", "init_client"} /\ (~HAS_OPENAI \/ openai_key = <<>>))
       => ~USE_API
    /\ ~USE_API
       => /\ client = "None"
          /\ cpc \in {"idle", "skipped"}
          /\ n_attempts = 0 /\ sleeps = <<>> /\ api_log = <<>>
          /\ \A j \in 1..Len(results) :
                /\ results[j]["subject"] = mock_generate(df[j]).subject
                /\ results[j]["body"] = mock_generate(df[j]).body
                /\ results[j]["notification"] = mock_notification(df[j])
                /\ results[j]["used_fallback"]

C10_Witness ==
    /\ pc = "done"
    /\ ~USE_API
    /\ HAS_OPENAI
    /\ Truthy(openai_key)
    /\ Len(results) >= 2

===========================================================================
